---- MODULE Spec2Model ----
(***************************************************************************)
(* A model of the event-history reconstruction (BuildEventTree), of the    *)
(* timeline projection (TimelineView), of the racing fetches of the        *)
(* history views and of the auto-refresh goroutine of the list views.      *)
(***************************************************************************)
EXTENDS Integers, Sequences, FiniteSets, TLC

VARIABLES
    events,      \* the []EnhancedHistoryEvent handed to BuildEventTree
    treePc,      \* "input", then "built" after a build, "rebuilt" after a second
    build,       \* the locals of the last BuildEventTree call
    tree,        \* the roots the last call returned
    firstTree    \* the roots the first call returned

treeVars == <<events, treePc, build, tree, firstTree>>

VARIABLES
    nodes,        \* the []*EventTreeNode last handed to SetNodes
    lanes,        \* TimelineView.lanes
    startTime,    \* TimelineView.startTime
    endTime,      \* TimelineView.endTime
    scrollX,      \* TimelineView.scrollX
    scrollY,      \* TimelineView.scrollY
    zoomLevel,    \* TimelineView.zoomLevel, in thousandths
    selectedLane, \* TimelineView.selectedLane
    height,       \* the height of the view's inner rectangle
    now,          \* the wall clock, time.Now()
    tlOp          \* the last operation on the timeline

timelineVars ==
    <<nodes, lanes, startTime, endTime, scrollX, scrollY, zoomLevel,
      selectedLane, height, now, tlOp>>

VARIABLES
    openView,     \* the view Start was called on: "none" before
    requests,     \* the loadData calls so far
    overlap,      \* a loadData call found an earlier fetch not yet applied
    inflight,     \* the provider calls running in goroutines
    updates,      \* the callbacks queued to the render thread, oldest first
    loading,      \* eh.loading, wd.loading
    workflow,     \* wd.workflow: the request it came from, 0 for nil
    viewEvents,   \* eh.events, wd.events: the request they came from, 0 for none
    table,        \* what eh.table, wd.eventTable shows
    workflowView, \* what wd.workflowView shows
    arrived,      \* the results in the order they were queued
    applied       \* the results in the order their callbacks ran

fetchVars ==
    <<openView, requests, overlap, inflight, updates, loading, workflow,
      viewEvents, table, workflowView, arrived, applied>>

VARIABLES
    active,        \* the list view is between Start and Stop
    autoRefresh,   \* wl.autoRefresh
    refreshTicker, \* wl.refreshTicker: the ticker's number, 0 for nil
    tickers,       \* the tickers made so far: running, and a tick in the channel
    routines,      \* the goroutines of startAutoRefresh
    queued,        \* the refresh callbacks queued to the render thread
    listLoading,   \* wl.loading
    crashed        \* a goroutine dereferenced a nil ticker

refreshVars ==
    <<active, autoRefresh, refreshTicker, tickers, routines, queued,
      listLoading, crashed>>

VARIABLES
    modal,      \* the command whose modal page is open: "none" without one
    runID,      \* wd.runID
    runs,       \* the runs the server has of the workflow
    executed,   \* the execute...Workflow calls so far
    spawned,    \* the command goroutines that have not called the provider yet
    calling,    \* the provider calls of the commands, with the run id passed
    offRender   \* the view fields a goroutine has read or written

commandVars == <<modal, runID, runs, executed, spawned, calling, offRender>>

VARIABLES
    stack,    \* Pages.stack: the components, the current one last
    calls,    \* the Start and Stop calls each component has received, in order
    pageOps   \* the Push, Pop and Clear calls so far

pageVars == <<stack, calls, pageOps>>

VARIABLES
    fetchRun    \* the run id each fetch goroutine passed to the provider

resetVars == <<fetchRun>>

VARIABLES
    workflows,  \* wl.workflows: the items of the last successful load
    rows,       \* the data rows of wl.table, below the header
    listLoads,  \* the loads of the list that have delivered a result
    activation  \* the row last activated: what it showed and what was opened

rowVars == <<workflows, rows, listLoads, activation>>

VARIABLES
    deleteModal,  \* the confirm-delete page is shown
    deleted,      \* the executeDeleteWorkflow calls so far
    deleting,     \* the DeleteWorkflow calls that have not returned
    deleteQueue,  \* the results whose callbacks are queued: TRUE for err == nil
    lastDelete    \* what the last successful delete callback popped

deleteVars == <<deleteModal, deleted, deleting, deleteQueue, lastDelete>>


VARIABLES
    activeTheme,    \* the key of the theme ActiveTheme() returns
    tsmOpen,        \* a ThemeSelectorModal is shown
    originalTheme,  \* tsm.originalTheme
    themeRow,       \* the selected row of tsm.table
    openedWith,     \* the active theme when the selector was last opened
    themeOp,        \* the last operation on the selector
    previews        \* the navigation keys since the selector was opened

themeVars ==
    <<activeTheme, tsmOpen, originalTheme, themeRow, openedWith, themeOp,
      previews>>


notRowVars ==
    <<treeVars, timelineVars, fetchVars, refreshVars, commandVars, pageVars,
      resetVars, deleteVars, themeVars>>

notPageVars ==
    <<treeVars, timelineVars, fetchVars, refreshVars, commandVars, resetVars,
      rowVars, deleteVars, themeVars>>

vars ==
    <<treeVars, timelineVars, fetchVars, refreshVars, commandVars, pageVars,
      resetVars, rowVars, deleteVars, themeVars>>

notTreeVars ==
    <<timelineVars, fetchVars, refreshVars, commandVars, pageVars, resetVars,
      rowVars, deleteVars, themeVars>>

notTimelineVars ==
    <<treeVars, fetchVars, refreshVars, commandVars, pageVars, resetVars,
      rowVars, deleteVars, themeVars>>

notFetchVars ==
    <<treeVars, timelineVars, refreshVars, commandVars, pageVars, resetVars,
      rowVars, deleteVars, themeVars>>

notRefreshVars ==
    <<treeVars, timelineVars, fetchVars, commandVars, pageVars, resetVars,
      rowVars, deleteVars, themeVars>>

notViewVars ==
    <<treeVars, timelineVars, refreshVars, pageVars, resetVars, rowVars,
      deleteVars, themeVars>>

(***************************************************************************)
(* Bounds of the model.                                                    *)
(***************************************************************************)
MaxEvents == 4

MaxActivityEvents == 6

MaxNodes == 3

MaxLanes == 4

MaxScrollX == 10

MaxHeight == 5

MaxRequests == 2

MaxTickers == 2

MaxQueued == 2

\* The commands confirmed on the workflow detail view.
MaxCommands == 2

\* The Push, Pop and Clear calls on the page stack.
MaxPageOps == 4

\* The delete commands confirmed on the workflow detail view.
MaxDeletes == 2

\* The loads of the workflow list, and the workflows one load returns.
MaxLoads == 4

MaxItems == 2

(***************************************************************************)
(* part_007: EventGroupType, EventTreeNode, BuildEventTree.                *)
(***************************************************************************)
GroupWorkflow == "Workflow"

GroupWorkflowTask == "WorkflowTask"

GroupActivity == "Activity"

GroupTimer == "Timer"

GroupChildWorkflow == "ChildWorkflow"

GroupSignal == "Signal"

GroupMarker == "Marker"

GroupOther == "Other"

\* A nil *time.Time. Event times are positive.
NilTime == -1

\* The id no event of the input carries: a reference to it is an orphan.
OrphanID == MaxEvents + MaxActivityEvents + 1

\* Event i of a history carries the time TimeOf(i): the log is chronological.
TimeOf(id) == 100 + 10 * id

\* The type tags that begin with "WorkflowExecution" (strings.HasPrefix).
HasPrefixWorkflowExecution(t) ==
    t \in {"WorkflowExecutionStarted", "WorkflowExecutionCompleted",
           "WorkflowExecutionFailed", "WorkflowExecutionTimedOut",
           "WorkflowExecutionCanceled", "WorkflowExecutionTerminated",
           "WorkflowExecutionContinuedAsNew", "WorkflowExecutionSignaled",
           "WorkflowExecutionUpdateAccepted"}

\* The type tags that begin with "ChildWorkflowExecution".
HasPrefixChildWorkflowExecution(t) ==
    t \in {"ChildWorkflowExecutionStarted", "ChildWorkflowExecutionCompleted",
           "ChildWorkflowExecutionFailed", "ChildWorkflowExecutionTimedOut",
           "ChildWorkflowExecutionCanceled", "ChildWorkflowExecutionTerminated",
           "ChildWorkflowExecutionUnrecognized"}

extractWorkflowStatus(eventType) ==
    CASE eventType = "WorkflowExecutionCompleted" -> "Completed"
      [] eventType = "WorkflowExecutionFailed" -> "Failed"
      [] eventType = "WorkflowExecutionTimedOut" -> "TimedOut"
      [] eventType = "WorkflowExecutionCanceled" -> "Canceled"
      [] eventType = "WorkflowExecutionTerminated" -> "Terminated"
      [] eventType = "WorkflowExecutionContinuedAsNew" -> "ContinuedAsNew"
      [] OTHER -> "Unknown"

extractActivityStatus(eventType) ==
    CASE eventType = "ActivityTaskCompleted" -> "Completed"
      [] eventType = "ActivityTaskFailed" -> "Failed"
      [] eventType = "ActivityTaskTimedOut" -> "TimedOut"
      [] eventType = "ActivityTaskCanceled" -> "Canceled"
      [] OTHER -> "Unknown"

extractChildWorkflowStatus(eventType) ==
    CASE eventType = "ChildWorkflowExecutionCompleted" -> "Completed"
      [] eventType = "ChildWorkflowExecutionFailed" -> "Failed"
      [] eventType = "ChildWorkflowExecutionTimedOut" -> "TimedOut"
      [] eventType = "ChildWorkflowExecutionCanceled" -> "Canceled"
      [] eventType = "ChildWorkflowExecutionTerminated" -> "Terminated"
      [] OTHER -> "Unknown"

extractWorkflowTaskStatus(eventType) ==
    CASE eventType = "WorkflowTaskCompleted" -> "Completed"
      [] eventType = "WorkflowTaskFailed" -> "Failed"
      [] eventType = "WorkflowTaskTimedOut" -> "TimedOut"
      [] OTHER -> "Unknown"

\* An EnhancedHistoryEvent: the fields BuildEventTree reads. A field the
\* event's type does not carry holds 0, Go's zero value.
HistoryEvent(id, type, sched, started, initiated, attempt) ==
    [ID |-> id, Type |-> type, Time |-> TimeOf(id),
     ScheduledEventID |-> sched, StartedEventID |-> started,
     InitiatedEventID |-> initiated, Attempt |-> attempt]

\* A node made with the event's time as its end time whatever its kind.
NewNodeEnded(type, status, ev, end) ==
    [Type |-> type, Status |-> status, StartTime |-> ev.Time,
     EndTime |-> ev.Time, Duration |-> 0, Events |-> <<ev.ID>>,
     Children |-> <<>>, Attempts |-> 0]

\* &EventTreeNode{Type, Status, StartTime, EndTime, Events: {ev}}: Duration,
\* Children and Attempts keep Go's zero values.
NewNode(type, status, ev, end) ==
    [Type |-> type, Status |-> status, StartTime |-> ev.Time,
     EndTime |-> end, Duration |-> 0, Events |-> <<ev.ID>>,
     Children |-> <<>>, Attempts |-> 0]

\* A Go map from event id to *EventTreeNode, the node named by its index
\* in rootNodes.
EmptyMap == [k \in {} |-> 0]

\* A map that keeps only the group opened last.
MapPutLast(m, k, v) == [x \in {k} |-> v]

\* groups[ev.ID] = node
MapPut(m, k, v) == [x \in (DOMAIN m) \cup {k} |-> IF x = k THEN v ELSE m[x]]

\* No call made yet.
NoBuild ==
    [rootNodes |-> <<>>, processed |-> {}, activityGroups |-> EmptyMap,
     timerGroups |-> EmptyMap, childWfGroups |-> EmptyMap,
     wfTaskGroups |-> EmptyMap]

\* The local state of a call, were processed a package-level map made once.
NewBuildShared ==
    [rootNodes |-> <<>>, processed |-> build.processed, activityGroups |-> EmptyMap,
     timerGroups |-> EmptyMap, childWfGroups |-> EmptyMap,
     wfTaskGroups |-> EmptyMap]

\* The local state of one BuildEventTree call: rootNodes is nil and every
\* map is made anew.
NewBuild ==
    [rootNodes |-> <<>>, processed |-> {}, activityGroups |-> EmptyMap,
     timerGroups |-> EmptyMap, childWfGroups |-> EmptyMap,
     wfTaskGroups |-> EmptyMap]

\* rootNodes = append(rootNodes, node); processed[ev.ID] = true
AppendRoot(b, node, ev) ==
    [b EXCEPT !.rootNodes = Append(@, node), !.processed = @ \cup {ev.ID}]

\* A group start that takes a new start after a failed group of the kind for
\* a retry of that group: the event joins the failed group's node.
OpenGroupAsRetry(b, field, node, ev) ==
    LET failed == {r \in DOMAIN b.rootNodes :
                      b.rootNodes[r].Type = node.Type /\ b.rootNodes[r].Status = "Failed"}
    IN IF failed = {}
       THEN [AppendRoot(b, node, ev) EXCEPT
                ![field] = MapPut(@, ev.ID, Len(b.rootNodes) + 1)]
       ELSE LET r == CHOOSE x \in failed : \A y \in failed : y <= x
            IN [b EXCEPT !.rootNodes[r].Events = Append(@, ev.ID),
                         !.processed = @ \cup {ev.ID},
                         ![field] = MapPut(@, ev.ID, r)]

\* A group start: the node is appended and registered under the event's id.
OpenGroup(b, field, node, ev) ==
    [AppendRoot(b, node, ev) EXCEPT ![field] = MapPut(@, ev.ID, Len(b.rootNodes) + 1)]

\* A continuation: if the group exists the event is appended and the status
\* set; the event is marked processed in either case.
ContinueGroup(b, groups, corr, ev, status) ==
    IF corr \in DOMAIN groups
    THEN [b EXCEPT !.rootNodes[groups[corr]] =
                        [@ EXCEPT !.Events = Append(@, ev.ID), !.Status = status],
                   !.processed = @ \cup {ev.ID}]
    ELSE [b EXCEPT !.processed = @ \cup {ev.ID}]

\* A group end: events, status, end time and duration of the group.
CloseNode(n, ev, status) ==
    [n EXCEPT !.Events = Append(@, ev.ID), !.Status = status,
              !.EndTime = ev.Time, !.Duration = ev.Time - n.StartTime]

CloseGroup(b, groups, corr, ev, status) ==
    IF corr \in DOMAIN groups
    THEN [b EXCEPT !.rootNodes[groups[corr]] = CloseNode(@, ev, status),
                   !.processed = @ \cup {ev.ID}]
    ELSE [b EXCEPT !.processed = @ \cup {ev.ID}]

\* The case with an attempt child for the first attempt too.
ActivityStartedEveryAttempt(b, ev) ==
    IF ev.ScheduledEventID \in DOMAIN b.activityGroups
    THEN LET g == b.activityGroups[ev.ScheduledEventID]
             attemptNode == NewNode(GroupActivity, "Running", ev, NilTime)
         IN [b EXCEPT !.rootNodes[g] =
                          [@ EXCEPT !.Events = Append(@, ev.ID),
                                    !.Status = "Running",
                                    !.Attempts = IF ev.Attempt > 1 THEN ev.Attempt ELSE @,
                                    !.Children = Append(@, attemptNode)],
                      !.processed = @ \cup {ev.ID}]
    ELSE [b EXCEPT !.processed = @ \cup {ev.ID}]

\* case ev.Type == "ActivityTaskStarted"
ActivityStarted(b, ev) ==
    IF ev.ScheduledEventID \in DOMAIN b.activityGroups
    THEN LET g == b.activityGroups[ev.ScheduledEventID]
             attemptNode == NewNode(GroupActivity, "Running", ev, NilTime)
         IN [b EXCEPT !.rootNodes[g] =
                          [@ EXCEPT !.Events = Append(@, ev.ID),
                                    !.Status = "Running",
                                    !.Attempts = IF ev.Attempt > 1 THEN ev.Attempt ELSE @,
                                    !.Children = IF ev.Attempt > 1
                                                 THEN Append(@, attemptNode) ELSE @],
                      !.processed = @ \cup {ev.ID}]
    ELSE [b EXCEPT !.processed = @ \cup {ev.ID}]

\* case ev.Type == "ActivityTaskCompleted" || ... : the group is closed and,
\* if it has attempt children, so is the last of them.
ActivityClosed(b, ev) ==
    IF ev.ScheduledEventID \in DOMAIN b.activityGroups
    THEN LET g == b.activityGroups[ev.ScheduledEventID]
             status == extractActivityStatus(ev.Type)
             group == CloseNode(b.rootNodes[g], ev, status)
             n == Len(group.Children)
         IN [b EXCEPT !.rootNodes[g] =
                          IF n > 0
                          THEN [group EXCEPT !.Children[n] = CloseNode(@, ev, status)]
                          ELSE group,
                      !.processed = @ \cup {ev.ID}]
    ELSE [b EXCEPT !.processed = @ \cup {ev.ID}]

\* The switch of the loop body, first match wins.
ProcessEvent(b, ev) ==
    CASE ev.Type = "WorkflowExecutionStarted" ->
           AppendRoot(b, NewNode(GroupWorkflow, "Running", ev, NilTime), ev)
      [] HasPrefixWorkflowExecution(ev.Type)
           /\ ev.Type # "WorkflowExecutionStarted"
           /\ ev.Type # "WorkflowExecutionSignaled" ->
           AppendRoot(b, NewNode(GroupWorkflow, extractWorkflowStatus(ev.Type), ev, ev.Time), ev)
      [] ev.Type = "ActivityTaskScheduled" ->
           OpenGroup(b, "activityGroups", NewNode(GroupActivity, "Scheduled", ev, NilTime), ev)
      [] ev.Type = "ActivityTaskStarted" -> ActivityStarted(b, ev)
      [] ev.Type \in {"ActivityTaskCompleted", "ActivityTaskFailed",
                      "ActivityTaskTimedOut", "ActivityTaskCanceled"} ->
           ActivityClosed(b, ev)
      [] ev.Type = "TimerStarted" ->
           OpenGroup(b, "timerGroups", NewNode(GroupTimer, "Running", ev, NilTime), ev)
      [] ev.Type \in {"TimerFired", "TimerCanceled"} ->
           CloseGroup(b, b.timerGroups, ev.StartedEventID, ev,
                      IF ev.Type = "TimerFired" THEN "Fired" ELSE "Canceled")
      [] ev.Type = "StartChildWorkflowExecutionInitiated" ->
           OpenGroup(b, "childWfGroups", NewNode(GroupChildWorkflow, "Initiated", ev, NilTime), ev)
      [] ev.Type = "ChildWorkflowExecutionStarted" ->
           ContinueGroup(b, b.childWfGroups, ev.InitiatedEventID, ev, "Running")
      [] HasPrefixChildWorkflowExecution(ev.Type)
           /\ ev.Type # "ChildWorkflowExecutionStarted" ->
           CloseGroup(b, b.childWfGroups, ev.InitiatedEventID, ev,
                      extractChildWorkflowStatus(ev.Type))
      [] ev.Type = "WorkflowTaskScheduled" ->
           OpenGroup(b, "wfTaskGroups", NewNode(GroupWorkflowTask, "Scheduled", ev, NilTime), ev)
      [] ev.Type = "WorkflowTaskStarted" ->
           ContinueGroup(b, b.wfTaskGroups, ev.ScheduledEventID, ev, "Running")
      [] ev.Type \in {"WorkflowTaskCompleted", "WorkflowTaskFailed", "WorkflowTaskTimedOut"} ->
           CloseGroup(b, b.wfTaskGroups, ev.ScheduledEventID, ev,
                      extractWorkflowTaskStatus(ev.Type))
      [] ev.Type = "WorkflowExecutionSignaled" ->
           AppendRoot(b, NewNode(GroupSignal, "Received", ev, ev.Time), ev)
      [] ev.Type = "MarkerRecorded" ->
           AppendRoot(b, NewNode(GroupMarker, "Recorded", ev, ev.Time), ev)
      [] OTHER ->
           IF ev.ID \notin b.processed
           THEN AppendRoot(b, NewNode(GroupOther, "Unknown", ev, NilTime), ev)
           ELSE b

\* for i := range events { if processed[ev.ID] { continue }; switch ... }
RECURSIVE BuildLoop(_, _, _)
BuildLoop(evs, i, b) ==
    IF i > Len(evs) THEN b
    ELSE BuildLoop(evs, i + 1,
                   IF evs[i].ID \in b.processed THEN b ELSE ProcessEvent(b, evs[i]))

\* BuildEventTree(events): nil for an empty input, before any map is made.
BuildEventTree(evs) ==
    IF Len(evs) = 0 THEN NoBuild ELSE BuildLoop(evs, 1, NewBuild)

(***************************************************************************)
(* xdg.go: TimelineLane, TimelineView.                                     *)
(***************************************************************************)
\* time.Time{}, the zero time: every time of a node is later.
ZeroTime == 0

\* time.Minute, in seconds.
Minute == 60

\* zoomLevel 1.0, in thousandths.
ZoomOne == 1000

\* The bounds of zoom(): 0.5 and 5.0.
ZoomMin == 500

ZoomMax == 5000

\* What SetNodes reads of an EventTreeNode.
TimelineNode(type, start, end) ==
    [Type |-> type, Status |-> IF end = NilTime THEN "Running" ELSE "Completed",
     StartTime |-> start, EndTime |-> end]

\* TimelineLane{Type, Status, StartTime, EndTime, Node}: Node is the
\* position of the node in the list given to SetNodes.
TimelineLane(ns, i) ==
    [Type |-> ns[i].Type, Status |-> ns[i].Status, StartTime |-> ns[i].StartTime,
     EndTime |-> ns[i].EndTime, Node |-> i]

\* The skip test of SetNodes, mutated: workflow tasks get a lane.
SetNodesSkipsWorkflowOnly(n) == n.Type = GroupWorkflow

\* if node.Type == GroupWorkflow || node.Type == GroupWorkflowTask { continue }
SetNodesSkips(n) == n.Type = GroupWorkflow \/ n.Type = GroupWorkflowTask

\* The range end of one loop step: the later of the range end and the
\* node's end time, or of the range end and the clock for an open node.
RangeEnd(end, node, clock) ==
    IF node.EndTime # NilTime /\ node.EndTime > end THEN node.EndTime
    ELSE IF node.EndTime = NilTime /\ clock > end THEN clock
    ELSE end

\* The loop of SetNodes over the nodes from position i on.
RECURSIVE SetNodesLoop(_, _, _, _)
SetNodesLoop(ns, i, tv, clock) ==
    IF i > Len(ns) THEN tv
    ELSE IF SetNodesSkips(ns[i]) THEN SetNodesLoop(ns, i + 1, tv, clock)
    ELSE SetNodesLoop(ns, i + 1,
             [startTime |-> IF ns[i].StartTime < tv.startTime
                            THEN ns[i].StartTime ELSE tv.startTime,
              endTime |-> RangeEnd(tv.endTime, ns[i], clock),
              lanes |-> Append(tv.lanes, TimelineLane(ns, i))],
             clock)

\* if tv.endTime.IsZero() || tv.endTime.Before(tv.startTime)
RangeFloor(tv) ==
    IF tv.endTime = ZeroTime \/ tv.endTime < tv.startTime
    THEN [tv EXCEPT !.endTime = tv.startTime + Minute]
    ELSE tv

\* The lanes and the range SetNodes computes for a non-empty list.
SetNodesRange(ns, clock) ==
    RangeFloor(SetNodesLoop(ns, 1, [startTime |-> clock, endTime |-> ZeroTime,
                                    lanes |-> <<>>], clock))

\* timeRange of Draw: the divisor of drawLaneBar.
DrawTimeRange ==
    IF endTime - startTime <= 0 THEN Minute ELSE endTime - startTime

\* visibleLanes := height - 3
HeaderRows == 3

VisibleLanes == height - HeaderRows

\* NewTimelineView(), laid out with room for one lane.
TimelineInit ==
    /\ nodes = <<>>
    /\ lanes = <<>>
    /\ startTime = ZeroTime
    /\ endTime = ZeroTime
    /\ scrollX = 0
    /\ scrollY = 0
    /\ zoomLevel = ZoomOne
    /\ selectedLane = 0
    /\ height = HeaderRows + 1
    /\ now = 90
    /\ tlOp = "New"

\* SetNodes(nodes), mutated: the selection is kept.
SetNodesKeepsSelection(ns) ==
    /\ nodes' = ns
    /\ IF Len(ns) = 0
       THEN /\ lanes' = <<>>
            /\ UNCHANGED <<startTime, endTime>>
       ELSE LET tv == SetNodesRange(ns, now)
            IN /\ lanes' = tv.lanes
               /\ startTime' = tv.startTime
               /\ endTime' = tv.endTime
    /\ tlOp' = "SetNodes"
    /\ UNCHANGED <<scrollX, scrollY, zoomLevel, selectedLane, height, now>>
    /\ UNCHANGED notTimelineVars

\* SetNodes(nodes)
SetNodes(ns) ==
    /\ nodes' = ns
    /\ selectedLane' = 0
    /\ IF Len(ns) = 0
       THEN /\ lanes' = <<>>
            /\ UNCHANGED <<startTime, endTime>>
       ELSE LET tv == SetNodesRange(ns, now)
            IN /\ lanes' = tv.lanes
               /\ startTime' = tv.startTime
               /\ endTime' = tv.endTime
    /\ tlOp' = "SetNodes"
    /\ UNCHANGED <<scrollX, scrollY, zoomLevel, height, now>>
    /\ UNCHANGED notTimelineVars

\* The times of the nodes and of the clock.
NodeTimes == {100, 110}

ClockTimes == {90, 105, 200}

\* The nodes a tree holds: a closed node ends no earlier than it starts.
TimelineNodes ==
    {n \in {TimelineNode(type, start, end) :
               type \in {GroupWorkflow, GroupWorkflowTask, GroupActivity},
               start \in NodeTimes, end \in NodeTimes \cup {NilTime}} :
        n.EndTime = NilTime \/ n.EndTime >= n.StartTime}

\* A refresh of the owning view finds one more node in the tree.
Refresh ==
    /\ Len(nodes) < MaxNodes
    /\ \E n \in TimelineNodes : nodes' = Append(nodes, n)
    /\ tlOp' = "Refresh"
    /\ UNCHANGED <<lanes, startTime, endTime, scrollX, scrollY, zoomLevel,
                   selectedLane, height, now>>
    /\ UNCHANGED notTimelineVars

\* The view is handed the tree.
SetNodesTree == SetNodes(nodes)

\* Time passes.
Tick ==
    /\ \E t \in ClockTimes : t > now /\ now' = t
    /\ tlOp' = "Tick"
    /\ UNCHANGED <<nodes, lanes, startTime, endTime, scrollX, scrollY, zoomLevel,
                   selectedLane, height>>
    /\ UNCHANGED notTimelineVars

TimelineNext == Refresh \/ SetNodesTree \/ Tick

\* The heights at which the view shows at least one lane.
Heights == (HeaderRows + 1)..MaxHeight

\* The terminal lays the view out, or is resized.
Layout ==
    /\ \E h \in Heights : h # height /\ height' = h
    /\ tlOp' = "Layout"
    /\ UNCHANGED <<nodes, lanes, startTime, endTime, scrollX, scrollY, zoomLevel,
                   selectedLane, now>>
    /\ UNCHANGED notTimelineVars

\* k nodes that each get a lane.
LaneNodes(k) == [i \in 1..k |-> TimelineNode(GroupActivity, 100, 110)]

\* The view is handed a tree of k lanes.
SetNodesLanes == \E k \in 0..MaxLanes : SetNodes(LaneNodes(k))

\* moveSelection(delta), mutated: a selection outside the window is always
\* brought to the top row of the window.
moveSelectionToTop(delta) ==
    /\ Len(lanes) # 0
    /\ LET moved == selectedLane + delta
           low == IF moved < 0 THEN 0 ELSE moved
           sel == IF low >= Len(lanes) THEN Len(lanes) - 1 ELSE low
       IN /\ selectedLane' = sel
          /\ scrollY' = IF sel < scrollY \/ sel >= scrollY + VisibleLanes
                        THEN sel ELSE scrollY
    /\ tlOp' = "moveSelection"
    /\ UNCHANGED <<nodes, lanes, startTime, endTime, scrollX, zoomLevel, height, now>>
    /\ UNCHANGED notTimelineVars

\* moveSelection(delta): keys j/k and the arrows move by one lane.
moveSelection(delta) ==
    /\ Len(lanes) # 0
    /\ LET moved == selectedLane + delta
           low == IF moved < 0 THEN 0 ELSE moved
           sel == IF low >= Len(lanes) THEN Len(lanes) - 1 ELSE low
           up == IF sel < scrollY THEN sel ELSE scrollY
       IN /\ selectedLane' = sel
          /\ scrollY' = IF sel >= up + VisibleLanes
                        THEN sel - VisibleLanes + 1 ELSE up
    /\ tlOp' = "moveSelection"
    /\ UNCHANGED <<nodes, lanes, startTime, endTime, scrollX, zoomLevel, height, now>>
    /\ UNCHANGED notTimelineVars

MoveSelection == \E delta \in {-1, 1} : moveSelection(delta)

\* scroll(delta): keys h/l and the arrows scroll by five columns.
ScrollStep == 5

scroll(delta) ==
    /\ scrollX + delta <= MaxScrollX
    /\ scrollX' = IF scrollX + delta < 0 THEN 0 ELSE scrollX + delta
    /\ tlOp' = "scroll"
    /\ UNCHANGED <<nodes, lanes, startTime, endTime, scrollY, zoomLevel,
                   selectedLane, height, now>>
    /\ UNCHANGED notTimelineVars

Scroll == \E delta \in {-ScrollStep, ScrollStep} : scroll(delta)

\* zoom(factor): keys + and - zoom by 1.2 and 0.8, in thousandths.
ZoomInFactor == 1200

ZoomOutFactor == 800

\* zoom(factor), mutated: the level is scaled and not clamped.
zoomUnclamped(factor) ==
    /\ zoomLevel' = (zoomLevel * factor) \div ZoomOne
    /\ tlOp' = "zoom"
    /\ UNCHANGED <<nodes, lanes, startTime, endTime, scrollX, scrollY,
                   selectedLane, height, now>>
    /\ UNCHANGED notTimelineVars

zoom(factor) ==
    /\ LET scaled == (zoomLevel * factor) \div ZoomOne
           low == IF scaled < ZoomMin THEN ZoomMin ELSE scaled
       IN zoomLevel' = IF low > ZoomMax THEN ZoomMax ELSE low
    /\ tlOp' = "zoom"
    /\ UNCHANGED <<nodes, lanes, startTime, endTime, scrollX, scrollY,
                   selectedLane, height, now>>
    /\ UNCHANGED notTimelineVars

Zoom == \E factor \in {ZoomInFactor, ZoomOutFactor} : zoom(factor)

\* resetView(): key 0.
ResetView ==
    /\ zoomLevel' = ZoomOne
    /\ scrollX' = 0
    /\ scrollY' = 0
    /\ tlOp' = "resetView"
    /\ UNCHANGED <<nodes, lanes, startTime, endTime, selectedLane, height, now>>
    /\ UNCHANGED notTimelineVars

\* No lane: the nil of SelectedLane().
NilLane == [Node |-> 0]

\* SelectedLane(): the lane at the selected index, nil for an index out of
\* range.
SelectedLane ==
    IF selectedLane >= 0 /\ selectedLane < Len(lanes)
    THEN lanes[selectedLane + 1] ELSE NilLane

\* The lane navigation, and the horizontal view.
NavNext == Layout \/ SetNodesLanes \/ MoveSelection \/ ResetView

\* The horizontal view: zoom, scroll and reset, on the trees handed over.
ZoomNext == Scroll \/ Zoom \/ ResetView \/ SetNodesLanes

(***************************************************************************)
(* The histories the builder is run on: event i has id i, and a            *)
(* correlation field names an earlier group start or the orphan id.        *)
(***************************************************************************)
SingleTypes == {"WorkflowExecutionTerminated", "MarkerRecorded", "NexusOperationScheduled"}

StartTypes ==
    {"ActivityTaskScheduled", "TimerStarted",
     "StartChildWorkflowExecutionInitiated", "WorkflowTaskScheduled"}

ActivityRefTypes == {"ActivityTaskCompleted", "ActivityTaskFailed"}

\* Attempt numbers of an ActivityTaskStarted event: the first try and a retry.
Attempts == {1, 2}

TimerRefTypes == {"TimerFired", "TimerCanceled"}

ChildWfRefTypes == {"ChildWorkflowExecutionStarted", "ChildWorkflowExecutionCompleted"}

WfTaskRefTypes == {"WorkflowTaskStarted", "WorkflowTaskCompleted"}

\* What a correlation field may hold: the id of an earlier start event of
\* the group kind, or the id of an event outside the fetched window.
CorrIds(evs, startType) ==
    {evs[i].ID : i \in {j \in 1..Len(evs) : evs[j].Type = startType}} \cup {OrphanID}

NextEvents(evs) ==
    LET id == Len(evs) + 1
    IN {HistoryEvent(id, t, 0, 0, 0, 0) : t \in SingleTypes \cup StartTypes}
       \cup {HistoryEvent(id, t, c, 0, 0, 0) :
                 t \in ActivityRefTypes, c \in CorrIds(evs, "ActivityTaskScheduled")}
       \cup {HistoryEvent(id, "ActivityTaskStarted", c, 0, 0, a) :
                 c \in CorrIds(evs, "ActivityTaskScheduled"), a \in Attempts}
       \cup {HistoryEvent(id, t, 0, c, 0, 0) :
                 t \in TimerRefTypes, c \in CorrIds(evs, "TimerStarted")}
       \cup {HistoryEvent(id, t, 0, 0, c, 0) :
                 t \in ChildWfRefTypes,
                 c \in CorrIds(evs, "StartChildWorkflowExecutionInitiated")}
       \cup {HistoryEvent(id, t, c, 0, 0, 0) :
                 t \in WfTaskRefTypes, c \in CorrIds(evs, "WorkflowTaskScheduled")}

TreeInit ==
    /\ events = <<>>
    /\ treePc = "input"
    /\ build = NoBuild
    /\ tree = <<>>
    /\ firstTree = <<>>

\* The provider delivers the next event of the history.
Feed ==
    /\ treePc = "input"
    /\ Len(events) < MaxEvents
    /\ \E e \in NextEvents(events) : events' = Append(events, e)
    /\ UNCHANGED <<treePc, build, tree, firstTree>>
    /\ UNCHANGED notTreeVars

\* The first call of BuildEventTree on the history received.
Build ==
    /\ treePc = "input"
    /\ build' = BuildEventTree(events)
    /\ tree' = build'.rootNodes
    /\ firstTree' = tree'
    /\ treePc' = "built"
    /\ UNCHANGED events
    /\ UNCHANGED notTreeVars

\* A refresh: BuildEventTree is called again on the same history.
Rebuild ==
    /\ treePc = "built"
    /\ build' = BuildEventTree(events)
    /\ tree' = build'.rootNodes
    /\ treePc' = "rebuilt"
    /\ UNCHANGED <<events, firstTree>>
    /\ UNCHANGED notTreeVars

TreeNext == Feed \/ Build \/ Rebuild

\* The event types of the activity groups.
ActivityTypes ==
    {"ActivityTaskScheduled", "ActivityTaskStarted"} \cup ActivityRefTypes

\* Attempt numbers of an activity that is retried twice.
RetryAttempts == {1, 2, 3}

\* The next event of a history of activities alone, each event after a
\* Scheduled event naming an ActivityTaskScheduled event before it.
ActivityEvents(evs) ==
    LET id == Len(evs) + 1
        scheduled == CorrIds(evs, "ActivityTaskScheduled") \ {OrphanID}
    IN {HistoryEvent(id, "ActivityTaskScheduled", 0, 0, 0, 0)}
       \cup {HistoryEvent(id, t, c, 0, 0, 0) : t \in ActivityRefTypes, c \in scheduled}
       \cup {HistoryEvent(id, "ActivityTaskStarted", c, 0, 0, a) :
                 c \in scheduled, a \in RetryAttempts}

\* The provider delivers the next event of such a history.
FeedActivity ==
    /\ treePc = "input"
    /\ Len(events) < MaxActivityEvents
    /\ \E e \in ActivityEvents(events) : events' = Append(events, e)
    /\ UNCHANGED <<treePc, build, tree, firstTree>>
    /\ UNCHANGED notTreeVars

ActivityNext == FeedActivity \/ Build

\* Type tags outside the vocabulary of the classification: a type of another
\* domain, a known tag in the wrong case, and a tag that begins like the
\* child-workflow events.
UnrecognizedTypes ==
    {"NexusOperationScheduled", "activitytaskscheduled",
     "ChildWorkflowExecutionUnrecognized"}

\* The next event of a history of child workflows and unrecognized tags.
TaggedEvents(evs) ==
    LET id == Len(evs) + 1
    IN {HistoryEvent(id, "StartChildWorkflowExecutionInitiated", 0, 0, 0, 0)}
       \cup {HistoryEvent(id, t, 0, 0, c, 0) :
                 t \in UnrecognizedTypes \cup {"ChildWorkflowExecutionStarted"},
                 c \in CorrIds(evs, "StartChildWorkflowExecutionInitiated")}

\* The provider delivers the next event of such a history.
FeedTagged ==
    /\ treePc = "input"
    /\ Len(events) < MaxEvents
    /\ \E e \in TaggedEvents(events) : events' = Append(events, e)
    /\ UNCHANGED <<treePc, build, tree, firstTree>>
    /\ UNCHANGED notTreeVars

TaggedNext == FeedTagged \/ Build

(***************************************************************************)
(* part_001, workflow_detail.go: loadData of the event history view and of *)
(* the workflow detail view, with a provider configured.  The data of a    *)
(* fetch is named by the number of the request that fetched it.            *)
(***************************************************************************)
\* provider.GetWorkflow or provider.GetWorkflowHistory, called for a request.
Call(req, kind) == [req |-> req, kind |-> kind]

\* (workflow, err) or (events, err): ok is err == nil.
Result(call, ok) == [req |-> call.req, kind |-> call.kind, ok |-> ok]

\* What a table or a text view shows.
Nothing == [show |-> "nothing", req |-> 0]

Rows(req) == [show |-> "rows", req |-> req]

ErrorRow(req) == [show |-> "error", req |-> req]

\* The goroutines of one loadData: GetWorkflowHistory, and for the workflow
\* detail view GetWorkflow too.
Calls(view, req) ==
    IF view = "WorkflowDetail"
    THEN {Call(req, "workflow"), Call(req, "history")}
    ELSE {Call(req, "history")}

\* NewEventHistory, NewWorkflowDetail: no data, nothing in flight.
FetchInit ==
    /\ openView = "none"
    /\ requests = 0
    /\ overlap = FALSE
    /\ inflight = {}
    /\ updates = <<>>
    /\ loading = FALSE
    /\ workflow = 0
    /\ viewEvents = 0
    /\ table = Nothing
    /\ workflowView = Nothing
    /\ arrived = <<>>
    /\ applied = <<>>

\* loadData(): setLoading(true) and a goroutine for each provider call.
loadData(view) ==
    /\ requests < MaxRequests
    /\ requests' = requests + 1
    /\ overlap' = (overlap \/ inflight # {} \/ updates # <<>>)
    /\ loading' = TRUE
    /\ inflight' = inflight \cup Calls(view, requests + 1)

\* Start(): the view becomes active and loads its data.
Start ==
    /\ openView = "none"
    /\ \E view \in {"EventHistory", "WorkflowDetail"} :
          /\ openView' = view
          /\ loadData(view)
    /\ UNCHANGED <<updates, workflow, viewEvents, table, workflowView,
                   arrived, applied>>
    /\ UNCHANGED notFetchVars

\* Key r: loadData().
RefreshKey ==
    /\ openView # "none"
    /\ loadData(openView)
    /\ UNCHANGED <<openView, updates, workflow, viewEvents, table, workflowView,
                   arrived, applied>>
    /\ UNCHANGED notFetchVars

\* A provider call returns, with data or with an error (a timeout or a
\* transport error), and its goroutine queues the callback.
Arrive ==
    /\ \E call \in inflight, ok \in BOOLEAN :
          /\ inflight' = inflight \ {call}
          /\ updates' = Append(updates, Result(call, ok))
          /\ arrived' = Append(arrived, Result(call, ok))
    /\ UNCHANGED <<openView, requests, overlap, loading, workflow, viewEvents,
                   table, workflowView, applied>>
    /\ UNCHANGED notFetchVars

\* The callback of EventHistory.loadData.
EventHistoryLoaded(r) ==
    /\ loading' = FALSE
    /\ IF ~r.ok
       THEN /\ table' = ErrorRow(r.req)
            /\ UNCHANGED viewEvents
       ELSE /\ viewEvents' = r.req
            /\ table' = Rows(r.req)
    /\ UNCHANGED <<workflow, workflowView>>

\* The callback of the GetWorkflow goroutine of WorkflowDetail.loadData.
WorkflowLoaded(r) ==
    /\ loading' = FALSE
    /\ IF ~r.ok
       THEN /\ workflowView' = ErrorRow(r.req)
            /\ UNCHANGED workflow
       ELSE /\ workflow' = r.req
            /\ workflowView' = Rows(r.req)
    /\ UNCHANGED <<viewEvents, table>>

\* The callback of the GetWorkflowHistory goroutine of WorkflowDetail.loadData.
WorkflowEventsLoaded(r) ==
    /\ IF ~r.ok
       THEN UNCHANGED <<viewEvents, table>>
       ELSE /\ viewEvents' = r.req
            /\ table' = Rows(r.req)
    /\ UNCHANGED <<loading, workflow, workflowView>>

\* The render thread runs the oldest queued callback.
RunUpdate ==
    /\ updates # <<>>
    /\ Head(updates).kind \in {"workflow", "history"}
    /\ LET r == Head(updates)
       IN /\ IF openView = "EventHistory" THEN EventHistoryLoaded(r)
             ELSE IF r.kind = "workflow" THEN WorkflowLoaded(r)
             ELSE WorkflowEventsLoaded(r)
          /\ applied' = Append(applied, r)
    /\ updates' = Tail(updates)
    /\ UNCHANGED <<openView, requests, overlap, inflight, arrived>>
    /\ UNCHANGED notFetchVars

FetchNext == Start \/ RefreshKey \/ Arrive \/ RunUpdate

(***************************************************************************)
(* workflow_detail.go: the commands of the workflow detail view, with a    *)
(* provider configured.  Each is confirmed in a modal page and runs the    *)
(* provider call in a goroutine that queues its callback.                  *)
(***************************************************************************)
Commands == {"cancel", "terminate", "signal", "reset"}

\* NewWorkflowDetail(app, workflowID, runID): no modal, the run the list named.
CommandInit ==
    /\ modal = "none"
    /\ runID = 1
    /\ runs = 1
    /\ executed = 0
    /\ spawned = {}
    /\ calling = {}
    /\ offRender = {}

\* Keys c, X, s, R: showCancelConfirm, showTerminateConfirm, showSignalInput,
\* showResetConfirm put the modal page of the command on top.
ShowModal ==
    /\ openView = "WorkflowDetail"
    /\ modal = "none"
    /\ \E cmd \in Commands : modal' = cmd
    /\ UNCHANGED <<runID, runs, executed, spawned, calling, offRender>>
    /\ UNCHANGED fetchVars
    /\ UNCHANGED notViewVars

\* execute...Workflow(): the modal is confirmed, and stays until the callback.
ExecuteCommand ==
    /\ modal \in Commands
    /\ executed < MaxCommands
    /\ executed' = executed + 1
    /\ spawned' = spawned \cup {[id |-> executed + 1, cmd |-> modal]}
    /\ UNCHANGED <<modal, runID, runs, calling, offRender>>
    /\ UNCHANGED fetchVars
    /\ UNCHANGED notViewVars

\* The goroutine evaluates wd.workflowID and wd.runID and calls the provider.
CallProvider ==
    /\ \E g \in spawned :
          /\ spawned' = spawned \ {g}
          /\ calling' = calling \cup {[id |-> g.id, cmd |-> g.cmd, run |-> runID]}
    /\ offRender' = offRender \cup {"runID"}
    /\ UNCHANGED <<modal, runID, runs, executed>>
    /\ UNCHANGED fetchVars
    /\ UNCHANGED notViewVars

\* (newRunID, err) of a command: a reset that succeeds makes a new run.
CommandResult(c, ok, newRunID) ==
    [req |-> c.id, kind |-> c.cmd, ok |-> ok, newRunID |-> newRunID]

\* The provider call returns and the goroutine queues the callback.
CommandReturns ==
    /\ \E c \in calling, ok \in BOOLEAN :
          /\ calling' = calling \ {c}
          /\ IF c.cmd = "reset" /\ ok
             THEN /\ runs' = runs + 1
                  /\ updates' = Append(updates, CommandResult(c, ok, runs + 1))
             ELSE /\ UNCHANGED runs
                  /\ updates' = Append(updates, CommandResult(c, ok, 0))
    /\ UNCHANGED <<modal, runID, executed, spawned, offRender>>
    /\ UNCHANGED <<openView, requests, overlap, inflight, loading, workflow,
                   viewEvents, table, workflowView, arrived, applied>>
    /\ UNCHANGED notViewVars

\* The callback of a command, mutated: the view reloads whatever the result.
CommandDoneAlwaysLoads(r) ==
    /\ modal' = "none"
    /\ runID' = IF r.ok /\ r.kind = "reset" THEN r.newRunID ELSE runID
    /\ loadData("WorkflowDetail")
    /\ workflowView' = IF r.ok THEN workflowView ELSE ErrorRow(0)

\* The callback of a command: closeModal, then showError(err) or, for a
\* reset, wd.runID = newRunID and in each case loadData().
CommandDone(r) ==
    /\ modal' = "none"
    /\ IF ~r.ok
       THEN /\ workflowView' = ErrorRow(0)
            /\ UNCHANGED <<runID, requests, overlap, loading, inflight>>
       ELSE /\ runID' = IF r.kind = "reset" THEN r.newRunID ELSE runID
            /\ loadData("WorkflowDetail")
            /\ UNCHANGED workflowView

\* The render thread runs the oldest queued callback, that of a command.
RunCommandUpdate ==
    /\ updates # <<>>
    /\ Head(updates).kind \in Commands
    /\ CommandDone(Head(updates))
    /\ updates' = Tail(updates)
    /\ UNCHANGED <<runs, executed, spawned, calling, offRender>>
    /\ UNCHANGED <<openView, workflow, viewEvents, table, arrived, applied>>
    /\ UNCHANGED notViewVars

\* The view is opened and commands are run on it, while the provider calls
\* of its fetches are still running.
CommandNext ==
    \/ Start
    \/ ShowModal \/ ExecuteCommand \/ CallProvider \/ CommandReturns
    \/ RunCommandUpdate

(***************************************************************************)
(* workflow_list.go (and, line for line, namespace_list.go): the           *)
(* auto-refresh ticker, its goroutine and the render thread's queue.       *)
(***************************************************************************)
\* A nil *time.Ticker.
NilTicker == 0

\* time.NewTicker: running, no tick in its channel of capacity one.
NewTicker == [running |-> TRUE, tick |-> FALSE]

\* A goroutine of startAutoRefresh: about to evaluate the select, and the
\* values of wl.refreshTicker written since it was started.
NewRoutine(t) == [pc |-> "select", on |-> NilTicker, seen |-> {t}]

\* The render thread writes wl.refreshTicker while the goroutines read it
\* without synchronisation: a goroutine may read any value written since it
\* was started.
Written(rs, v) ==
    [g \in DOMAIN rs |->
        IF rs[g].pc \in {"done", "panic"} THEN rs[g]
        ELSE [rs[g] EXCEPT !.seen = @ \cup {v}]]

\* NewWorkflowList: not started, auto-refresh off.
RefreshInit ==
    /\ active = FALSE
    /\ autoRefresh = FALSE
    /\ refreshTicker = NilTicker
    /\ tickers = <<>>
    /\ routines = <<>>
    /\ queued = 0
    /\ listLoading = FALSE
    /\ crashed = FALSE

\* startAutoRefresh(): a new ticker and a goroutine that selects on it.
startAutoRefresh ==
    /\ Len(tickers) < MaxTickers
    /\ LET t == Len(tickers) + 1
       IN /\ tickers' = Append(tickers, NewTicker)
          /\ refreshTicker' = t
          /\ routines' = Append(Written(routines, t), NewRoutine(t))

\* stopAutoRefresh(): stop and forget the ticker, then a send on stopRefresh
\* that is dropped unless a goroutine is blocked in its select.
stopAutoRefresh ==
    /\ tickers' = IF refreshTicker # NilTicker
                  THEN [tickers EXCEPT ![refreshTicker].running = FALSE]
                  ELSE tickers
    /\ refreshTicker' = NilTicker
    /\ LET rs == IF refreshTicker # NilTicker
                 THEN Written(routines, NilTicker) ELSE routines
           waiting == {g \in DOMAIN rs : rs[g].pc = "waiting"}
       IN IF waiting = {}
          THEN routines' = rs
          ELSE \E g \in waiting : routines' = [rs EXCEPT ![g].pc = "done"]

\* Key a: toggleAutoRefresh().
toggleAutoRefresh ==
    /\ active /\ ~crashed
    /\ autoRefresh' = ~autoRefresh
    /\ IF ~autoRefresh THEN startAutoRefresh ELSE stopAutoRefresh
    /\ UNCHANGED <<active, queued, listLoading, crashed>>
    /\ UNCHANGED notRefreshVars

\* Start(): the input capture is installed and the data loaded.
WorkflowListStart ==
    /\ ~active /\ ~crashed
    /\ active' = TRUE
    /\ listLoading' = TRUE
    /\ UNCHANGED <<autoRefresh, refreshTicker, tickers, routines, queued, crashed>>
    /\ UNCHANGED notRefreshVars

\* Stop(): the input capture is removed and stopAutoRefresh() called.
WorkflowListStop ==
    /\ active /\ ~crashed
    /\ active' = FALSE
    /\ stopAutoRefresh
    /\ UNCHANGED <<autoRefresh, queued, listLoading, crashed>>
    /\ UNCHANGED notRefreshVars

\* A running ticker ticks: the tick goes to a goroutine blocked on the
\* ticker's channel, or into the channel when it is empty.
TickerFires ==
    /\ ~crashed
    /\ \E t \in DOMAIN tickers :
          /\ tickers[t].running
          /\ LET waiting == {g \in DOMAIN routines :
                                routines[g].pc = "waiting" /\ routines[g].on = t}
             IN IF waiting # {}
                THEN /\ \E g \in waiting :
                          routines' = [routines EXCEPT ![g].pc = "queue"]
                     /\ UNCHANGED tickers
                ELSE /\ ~tickers[t].tick
                     /\ tickers' = [tickers EXCEPT ![t].tick = TRUE]
                     /\ UNCHANGED routines
    /\ UNCHANGED <<active, autoRefresh, refreshTicker, queued, listLoading, crashed>>
    /\ UNCHANGED notRefreshVars

\* A goroutine enters its select: it reads wl.refreshTicker, panics on nil,
\* takes a tick that is in the channel, or blocks.
Select ==
    /\ ~crashed
    /\ \E g \in DOMAIN routines :
          /\ routines[g].pc = "select"
          /\ \E t \in routines[g].seen :
                IF t = NilTicker
                THEN /\ routines' = [routines EXCEPT ![g].pc = "panic"]
                     /\ crashed' = TRUE
                     /\ UNCHANGED tickers
                ELSE IF tickers[t].tick
                THEN /\ routines' = [routines EXCEPT ![g].pc = "queue"]
                     /\ tickers' = [tickers EXCEPT ![t].tick = FALSE]
                     /\ UNCHANGED crashed
                ELSE /\ routines' = [routines EXCEPT ![g].pc = "waiting", ![g].on = t]
                     /\ UNCHANGED <<tickers, crashed>>
    /\ UNCHANGED <<active, autoRefresh, refreshTicker, queued, listLoading>>
    /\ UNCHANGED notRefreshVars

\* A goroutine that received a tick queues the callback and loops.
QueueUpdateDraw ==
    /\ ~crashed
    /\ queued < MaxQueued
    /\ \E g \in DOMAIN routines :
          /\ routines[g].pc = "queue"
          /\ routines' = [routines EXCEPT ![g].pc = "select"]
    /\ queued' = queued + 1
    /\ UNCHANGED <<active, autoRefresh, refreshTicker, tickers, listLoading, crashed>>
    /\ UNCHANGED notRefreshVars

\* The render thread runs a queued callback: func() { wl.loadData() }.
RunRefresh ==
    /\ ~crashed
    /\ queued > 0
    /\ queued' = queued - 1
    /\ listLoading' = TRUE
    /\ UNCHANGED <<active, autoRefresh, refreshTicker, tickers, routines, crashed>>
    /\ UNCHANGED notRefreshVars

\* The callback of a loadData fetch: setLoading(false).
ListLoaded ==
    /\ ~crashed
    /\ listLoading
    /\ listLoading' = FALSE
    /\ UNCHANGED <<active, autoRefresh, refreshTicker, tickers, routines, queued,
                   crashed>>
    /\ UNCHANGED notRefreshVars

RefreshNext ==
    \/ toggleAutoRefresh
    \/ WorkflowListStart
    \/ WorkflowListStop
    \/ TickerFires
    \/ Select
    \/ QueueUpdateDraw
    \/ RunRefresh
    \/ ListLoaded

(***************************************************************************)
(* workflow_detail.go: the fetches of the workflow detail view around a    *)
(* reset.  The goroutines of loadData evaluate wd.runID when they run.     *)
(***************************************************************************)
ResetInit == fetchRun = {}

\* The calls whose goroutine has evaluated its arguments.
Fetching == {Call(f.req, f.kind) : f \in fetchRun}

\* A goroutine of loadData evaluates wd.workflowID and wd.runID and calls
\* provider.GetWorkflow or provider.GetWorkflowHistory.
CallFetch ==
    /\ \E call \in inflight \ Fetching :
          fetchRun' = fetchRun \cup {[req |-> call.req, kind |-> call.kind, run |-> runID]}
    /\ offRender' = offRender \cup {"runID"}
    /\ UNCHANGED <<modal, runID, runs, executed, spawned, calling>>
    /\ UNCHANGED fetchVars
    /\ UNCHANGED <<treeVars, timelineVars, refreshVars, pageVars, rowVars,
                   deleteVars, themeVars>>

\* The workflow detail view is opened.
StartDetail == Start /\ openView' = "WorkflowDetail"

\* A provider call that was made returns.
ArriveCalled == Arrive /\ (inflight \ inflight') \subseteq Fetching

\* Key R and the reset point chosen: the reset is confirmed in its modal.
ShowResetConfirm == ShowModal /\ modal' = "reset"

\* A reset run on the workflow detail view while its fetches are running.
ResetNext ==
    \/ StartDetail \/ CallFetch \/ ArriveCalled \/ RunUpdate
    \/ ShowResetConfirm \/ ExecuteCommand \/ CallProvider \/ CommandReturns
    \/ RunCommandUpdate

(***************************************************************************)
(* workflow_list.go: the rows of the workflow list and the selection       *)
(* handler.  A workflow is named by the load that returned it and its      *)
(* position; item 0 stands for the error row.                              *)
(***************************************************************************)
Item(load, i) == 10 * load + i

ErrorItem == 0

NoItem == -1

\* NewWorkflowList: workflows: []temporal.Workflow{}, an empty table.
RowInit ==
    /\ workflows = <<>>
    /\ rows = <<>>
    /\ listLoads = 0
    /\ activation = [shown |-> NoItem, opened |-> NoItem]

\* The callback of loadData with err == nil: wl.workflows = workflows and
\* populateTable() gives each workflow a row.
LoadSucceeds ==
    /\ listLoads < MaxLoads
    /\ listLoads' = listLoads + 1
    /\ \E n \in 0..MaxItems :
          workflows' = [i \in 1..n |-> Item(listLoads + 1, i)]
    /\ rows' = workflows'
    /\ UNCHANGED activation
    /\ UNCHANGED notRowVars

\* The callback of loadData with an error: showError(err) clears the rows
\* and adds the error row.
LoadFails ==
    /\ listLoads < MaxLoads
    /\ listLoads' = listLoads + 1
    /\ rows' = <<ErrorItem>>
    /\ UNCHANGED <<workflows, activation>>
    /\ UNCHANGED notRowVars

\* The selection handler of setup(): row >= 0 && row < len(wl.workflows)
\* opens wl.workflows[row]; row counts from 1 here.
OnSelect(row) ==
    IF row <= Len(workflows) THEN workflows[row] ELSE NoItem

\* Enter on a data row: Table.SetOnSelect skips the header and calls the
\* handler with the position of the row.
Activate ==
    /\ \E row \in DOMAIN rows :
          activation' = [shown |-> rows[row], opened |-> OnSelect(row)]
    /\ UNCHANGED <<workflows, rows, listLoads>>
    /\ UNCHANGED notRowVars

RowNext == LoadSucceeds \/ LoadFails \/ Activate

(***************************************************************************)
(* pages.go: the stack of views.  A component is named by its Name(), and  *)
(* the model keeps the Start and Stop calls each one receives.             *)
(***************************************************************************)
Components == {"workflows", "workflow-detail", "events"}

\* NewPages(): stack: []Component{}.
PageInit ==
    /\ stack = <<>>
    /\ calls = [c \in Components |-> <<>>]
    /\ pageOps = 0

\* c.Start() or c.Stop() on each component of cs in turn.
RECURSIVE Called(_, _, _)
Called(log, cs, call) ==
    IF cs = <<>> THEN log
    ELSE Called([log EXCEPT ![Head(cs)] = Append(@, call)], Tail(cs), call)

\* p.stack[len(p.stack)-1]
Top(st) == st[Len(st)]

\* p.stack[:len(p.stack)-1]
Front(st) == SubSeq(st, 1, Len(st) - 1)

\* Push(c): Stop on the current view, if any, then append c and Start it.
Push(c) ==
    /\ pageOps < MaxPageOps
    /\ pageOps' = pageOps + 1
    /\ stack' = Append(stack, c)
    /\ calls' = Called(IF Len(stack) > 0
                       THEN Called(calls, <<Top(stack)>>, "Stop") ELSE calls,
                       <<c>>, "Start")
    /\ UNCHANGED notPageVars

\* A view that is not on the stack is pushed.
PushView == \E c \in Components : c \notin {stack[i] : i \in DOMAIN stack} /\ Push(c)

\* Pop(): nil for a stack of at most one view; else Stop on the current
\* view, remove it, and Start on the one below.
Pop ==
    /\ pageOps < MaxPageOps
    /\ pageOps' = pageOps + 1
    /\ IF Len(stack) <= 1
       THEN UNCHANGED <<stack, calls>>
       ELSE /\ stack' = Front(stack)
            /\ calls' = Called(Called(calls, <<Top(stack)>>, "Stop"),
                               <<Top(Front(stack))>>, "Start")
    /\ UNCHANGED notPageVars

\* Clear(): Stop on every view of the stack, then the stack is emptied.
Clear ==
    /\ pageOps < MaxPageOps
    /\ pageOps' = pageOps + 1
    /\ calls' = Called(calls, stack, "Stop")
    /\ stack' = <<>>
    /\ UNCHANGED notPageVars

PageNext == PushView \/ Pop \/ Clear

(***************************************************************************)
(* workflow_detail.go, pages.go: the delete command of the workflow detail *)
(* view on the page stack.                                                 *)
(***************************************************************************)
notDeleteVars ==
    <<treeVars, timelineVars, fetchVars, refreshVars, commandVars, resetVars,
      rowVars, themeVars>>

NoDelete == "none"

DeleteInit ==
    /\ deleteModal = FALSE
    /\ deleted = 0
    /\ deleting = 0
    /\ deleteQueue = <<>>
    /\ lastDelete = NoDelete

\* The keys of a view reach it when no modal page lies over it; the
\* workflow list is the first view on the stack.
Navigate ==
    /\ PushView \/ Pop
    /\ ~deleteModal
    /\ stack' = <<>> \/ stack'[1] = "workflows"

\* Key D on the workflow detail view: showDeleteConfirm adds the modal page.
ShowDeleteConfirm ==
    /\ stack # <<>>
    /\ Top(stack) = "workflow-detail"
    /\ ~deleteModal
    /\ deleteModal' = TRUE
    /\ UNCHANGED <<deleted, deleting, deleteQueue, lastDelete>>
    /\ UNCHANGED pageVars
    /\ UNCHANGED notDeleteVars

\* Enter in the modal: executeDeleteWorkflow starts the goroutine that calls
\* provider.DeleteWorkflow; the modal stays.
ExecuteDelete ==
    /\ deleteModal
    /\ deleted < MaxDeletes
    /\ deleted' = deleted + 1
    /\ deleting' = deleting + 1
    /\ UNCHANGED <<deleteModal, deleteQueue, lastDelete>>
    /\ UNCHANGED pageVars
    /\ UNCHANGED notDeleteVars

\* Esc in the modal: onCancel closes it.
CancelDelete ==
    /\ deleteModal
    /\ deleteModal' = FALSE
    /\ UNCHANGED <<deleted, deleting, deleteQueue, lastDelete>>
    /\ UNCHANGED pageVars
    /\ UNCHANGED notDeleteVars

\* The provider call returns and the goroutine queues the callback.
DeleteReturns ==
    /\ deleting > 0
    /\ deleting' = deleting - 1
    /\ \E ok \in BOOLEAN : deleteQueue' = Append(deleteQueue, ok)
    /\ UNCHANGED <<deleteModal, deleted, lastDelete>>
    /\ UNCHANGED pageVars
    /\ UNCHANGED notDeleteVars

\* The callback: closeModal("confirm-delete"), then showError(err) or
\* Pages().Pop(), which removes the current view of a stack of two or more.
DeleteDone ==
    /\ deleteQueue # <<>>
    /\ deleteQueue' = Tail(deleteQueue)
    /\ deleteModal' = FALSE
    /\ IF ~Head(deleteQueue)
       THEN UNCHANGED <<stack, calls, lastDelete>>
       ELSE IF Len(stack) <= 1
       THEN /\ lastDelete' = "nothing"
            /\ UNCHANGED <<stack, calls>>
       ELSE /\ lastDelete' = Top(stack)
            /\ stack' = Front(stack)
            /\ calls' = Called(Called(calls, <<Top(stack)>>, "Stop"),
                               <<Top(Front(stack))>>, "Start")
    /\ UNCHANGED <<deleted, deleting, pageOps>>
    /\ UNCHANGED notDeleteVars

DeleteNext ==
    \/ Navigate
    \/ ShowDeleteConfirm \/ ExecuteDelete \/ CancelDelete \/ DeleteReturns
    \/ DeleteDone

(***************************************************************************)
(* The specifications: each runs one component and leaves the others in    *)
(* their initial state.                                                    *)
(***************************************************************************)
(***************************************************************************)
(* The theme selector, ThemeSelectorModal.  The theme registry it calls    *)
(* (ThemeNames, ActiveTheme, SetTheme) and the list navigator are outside  *)
(* the sources; they are modelled by the contract of their call sites.     *)
(***************************************************************************)
MaxPreviews == 4

\* config.ThemeNames()
Themes == <<"dark", "light", "nord", "mono">>

ThemeSet == {Themes[i] : i \in 1..Len(Themes)}

\* The empty originalTheme of a selector opened without an active theme.
NoTheme == ""

\* SetTheme(name): the named theme becomes the active one; an unknown name
\* is an error and changes nothing.
SetTheme(name) == IF name \in ThemeSet THEN name ELSE activeTheme

\* The row setup() selects: the row of the original theme, row 0 without one.
OriginalRow(original) ==
    IF original \in ThemeSet
    THEN (CHOOSE i \in 1..Len(Themes) : Themes[i] = original) - 1
    ELSE 0

\* The selection changed callback of the table: the theme of the row is
\* previewed.
SelectionChanged(row) ==
    IF row >= 0 /\ row < Len(Themes) THEN SetTheme(Themes[row + 1]) ELSE activeTheme

ThemeInit ==
    /\ activeTheme \in ThemeSet
    /\ tsmOpen = FALSE
    /\ originalTheme = NoTheme
    /\ themeRow = 0
    /\ openedWith = NoTheme
    /\ themeOp = "none"
    /\ previews = 0

notThemeVars ==
    <<treeVars, timelineVars, fetchVars, refreshVars, commandVars, pageVars,
      resetVars, rowVars, deleteVars>>

\* NewThemeSelectorModal()
NewThemeSelectorModal ==
    /\ ~tsmOpen
    /\ tsmOpen' = TRUE
    /\ originalTheme' = activeTheme
    /\ themeRow' = OriginalRow(activeTheme)
    /\ openedWith' = activeTheme
    /\ themeOp' = "open"
    /\ previews' = 0
    /\ UNCHANGED activeTheme
    /\ UNCHANGED notThemeVars

\* The selection is moved to a row: the callback runs when the row changed.
SelectRow(row) ==
    /\ themeRow' = row
    /\ activeTheme' = IF row # themeRow THEN SelectionChanged(row) ELSE activeTheme
    /\ themeOp' = "preview"
    /\ previews' = previews + 1
    /\ UNCHANGED <<tsmOpen, originalTheme, openedWith>>
    /\ UNCHANGED notThemeVars

\* Key j: tsm.nav.MoveDown()
MoveDown ==
    /\ tsmOpen
    /\ previews < MaxPreviews
    /\ SelectRow(IF themeRow + 1 < Len(Themes) THEN themeRow + 1 ELSE themeRow)

\* Key k: tsm.nav.MoveUp()
MoveUp ==
    /\ tsmOpen
    /\ previews < MaxPreviews
    /\ SelectRow(IF themeRow > 0 THEN themeRow - 1 ELSE themeRow)

\* restoreAndCancel(), mutated: the original theme is not restored.
cancelOnly ==
    /\ tsmOpen
    /\ tsmOpen' = FALSE
    /\ themeOp' = "cancel"
    /\ UNCHANGED <<activeTheme, originalTheme, themeRow, openedWith, previews>>
    /\ UNCHANGED notThemeVars

\* Esc or q: restoreAndCancel(); the cancel callback closes the selector.
restoreAndCancel ==
    /\ tsmOpen
    /\ activeTheme' = IF originalTheme # NoTheme
                       THEN SetTheme(originalTheme) ELSE activeTheme
    /\ tsmOpen' = FALSE
    /\ themeOp' = "cancel"
    /\ UNCHANGED <<originalTheme, themeRow, openedWith, previews>>
    /\ UNCHANGED notThemeVars

ThemeNext == NewThemeSelectorModal \/ MoveDown \/ MoveUp \/ restoreAndCancel

Init ==
    /\ TreeInit /\ TimelineInit /\ FetchInit /\ RefreshInit /\ CommandInit
    /\ PageInit /\ ResetInit /\ RowInit /\ DeleteInit /\ ThemeInit

SpecTree == Init /\ [][TreeNext]_vars

SpecActivity == Init /\ [][ActivityNext]_vars

SpecTagged == Init /\ [][TaggedNext]_vars

SpecTimeline == Init /\ [][TimelineNext]_vars

SpecNav == Init /\ [][NavNext]_vars

SpecZoom == Init /\ [][ZoomNext]_vars

SpecFetch == Init /\ [][FetchNext]_vars

SpecRefresh == Init /\ [][RefreshNext]_vars

SpecCommand == Init /\ [][CommandNext]_vars

SpecPages == Init /\ [][PageNext]_vars

SpecReset == Init /\ [][ResetNext]_vars

SpecRows == Init /\ [][RowNext]_vars

SpecDelete == Init /\ [][DeleteNext]_vars

SpecTheme == Init /\ [][ThemeNext]_vars

(***************************************************************************)
(* Properties of BuildEventTree.                                           *)
(***************************************************************************)
Built == treePc # "input"

\* The start-event type of the group an event of type t refers to.
StartTypeOf(t) ==
    CASE t \in {"ActivityTaskStarted", "ActivityTaskCompleted", "ActivityTaskFailed",
                "ActivityTaskTimedOut", "ActivityTaskCanceled"} -> "ActivityTaskScheduled"
      [] t \in {"TimerFired", "TimerCanceled"} -> "TimerStarted"
      [] t \in {"ChildWorkflowExecutionStarted", "ChildWorkflowExecutionCompleted",
                "ChildWorkflowExecutionFailed", "ChildWorkflowExecutionTimedOut",
                "ChildWorkflowExecutionCanceled", "ChildWorkflowExecutionTerminated"} ->
           "StartChildWorkflowExecutionInitiated"
      [] t \in {"WorkflowTaskStarted", "WorkflowTaskCompleted", "WorkflowTaskFailed",
                "WorkflowTaskTimedOut"} -> "WorkflowTaskScheduled"
      [] OTHER -> "none"

IsContinuation(t) ==
    t \in {"ActivityTaskStarted", "ChildWorkflowExecutionStarted", "WorkflowTaskStarted"}

IsTerminal(t) == StartTypeOf(t) # "none" /\ ~IsContinuation(t)

\* The correlation id an event carries for its group kind.
CorrOf(e) ==
    CASE StartTypeOf(e.Type) = "TimerStarted" -> e.StartedEventID
      [] StartTypeOf(e.Type) = "StartChildWorkflowExecutionInitiated" -> e.InitiatedEventID
      [] OTHER -> e.ScheduledEventID

\* The positions of the events that refer to the group opened at position s.
RefsTo(evs, s) ==
    {j \in DOMAIN evs : /\ j > s
                         /\ StartTypeOf(evs[j].Type) = evs[s].Type
                         /\ CorrOf(evs[j]) = evs[s].ID}

\* Event j refers to no group opened before it.
IsOrphan(evs, j) ==
    /\ StartTypeOf(evs[j].Type) # "none"
    /\ ~\E s \in 1..(j - 1) : j \in RefsTo(evs, s)

\* Every place of a tree that holds an event: <<root, 0, k>> is the k-th
\* event of a root, <<root, child, k>> the k-th event of an attempt child.
Places(t) ==
    UNION {{<<r, 0, k>> : k \in DOMAIN t[r].Events} : r \in DOMAIN t}
    \cup UNION {UNION {{<<r, c, k>> : k \in DOMAIN t[r].Children[c].Events} :
                           c \in DOMAIN t[r].Children} : r \in DOMAIN t}

EventAt(t, p) ==
    IF p[2] = 0 THEN t[p[1]].Events[p[3]] ELSE t[p[1]].Children[p[2]].Events[p[3]]

Occurrences(t, id) == Cardinality({p \in Places(t) : EventAt(t, p) = id})

\* C1: after a build every event of the input is in the contributing-events
\* list of exactly one node, counting the roots and their attempt children,
\* and no node lists an event that is not in the input.
C1_Partition ==
    Built => /\ \A i \in DOMAIN events : Occurrences(tree, events[i].ID) = 1
             /\ \A p \in Places(tree) : \E i \in DOMAIN events : events[i].ID = EventAt(tree, p)

\* C2: after a build every continuation or terminal event whose correlation
\* id matches no group opened earlier has a root of its own, of kind Other
\* and status "Unknown", whose only contributing event it is.
C2_OrphanKept ==
    Built => \A j \in DOMAIN events :
                IsOrphan(events, j) =>
                    \E r \in DOMAIN tree : /\ tree[r].Type = GroupOther
                                            /\ tree[r].Status = "Unknown"
                                            /\ tree[r].Events = <<events[j].ID>>

\* The status a terminal event type maps to.
ExpectedStatus(t) ==
    CASE t \in {"ActivityTaskCompleted", "ChildWorkflowExecutionCompleted",
                "WorkflowTaskCompleted"} -> "Completed"
      [] t = "ActivityTaskFailed" -> "Failed"
      [] t = "TimerFired" -> "Fired"
      [] t = "TimerCanceled" -> "Canceled"

ExpectedKind(startType) ==
    CASE startType = "ActivityTaskScheduled" -> GroupActivity
      [] startType = "TimerStarted" -> GroupTimer
      [] startType = "StartChildWorkflowExecutionInitiated" -> GroupChildWorkflow
      [] startType = "WorkflowTaskScheduled" -> GroupWorkflowTask

\* The events that refer to the group opened at s are a continuation at c
\* and then a terminal event at t and nothing else (a timer has no
\* continuation: c = s).
InOrder(evs, s, c, t) ==
    /\ IsTerminal(evs[t].Type)
    /\ IF evs[s].Type = "TimerStarted"
       THEN c = s /\ RefsTo(evs, s) = {t}
       ELSE s < c /\ c < t /\ IsContinuation(evs[c].Type) /\ RefsTo(evs, s) = {c, t}

GroupEvents(evs, s, c, t) ==
    IF c = s THEN <<evs[s].ID, evs[t].ID>> ELSE <<evs[s].ID, evs[c].ID, evs[t].ID>>

\* C3: when the start, the continuation and the terminal event of a group
\* arrive in that order, whatever other events lie between them, the group
\* holds exactly those events, in that order, the status mapped from the
\* terminal event and the terminal event's time as its end time.
C3_ClosesUnderInterleaving ==
    Built => \A s \in {i \in DOMAIN events : events[i].Type \in StartTypes} :
                \A c, t \in s..Len(events) :
                    InOrder(events, s, c, t) =>
                        \E r \in DOMAIN tree :
                            /\ tree[r].Type = ExpectedKind(events[s].Type)
                            /\ tree[r].StartTime = events[s].Time
                            /\ tree[r].Events = GroupEvents(events, s, c, t)
                            /\ tree[r].Status = ExpectedStatus(events[t].Type)
                            /\ tree[r].EndTime = events[t].Time

\* A three-event group with the start of another group between its events,
\* built.
C3_Witness ==
    /\ Built
    /\ \E s \in {i \in DOMAIN events : events[i].Type \in StartTypes} :
          \E c, t \in s..Len(events) :
              /\ InOrder(events, s, c, t)
              /\ c > s
              /\ \E k \in (s + 1)..(t - 1) : k # c /\ events[k].Type \in StartTypes
              /\ \E r \in DOMAIN tree : tree[r].Events = GroupEvents(events, s, c, t)

OpenGroups ==
    {r \in DOMAIN tree :
        \E s \in DOMAIN events :
            /\ events[s].Type \in StartTypes
            /\ tree[r].Events[1] = events[s].ID
            /\ ~\E j \in RefsTo(events, s) : IsTerminal(events[j].Type)}

Scheduled == {i \in DOMAIN events : events[i].Type = "ActivityTaskScheduled"}

\* The events that refer to the activity scheduled at s are one
\* ActivityTaskStarted with the attempt number and then one terminal event
\* of the type, both before position before.
ActivityChain(s, attempt, terminal, before) ==
    \E a, t \in (s + 1)..(before - 1) :
        /\ a < t
        /\ RefsTo(events, s) = {a, t}
        /\ events[a].Type = "ActivityTaskStarted" /\ events[a].Attempt = attempt
        /\ events[t].Type = terminal

\* A retry recorded as a new chain: Scheduled s1, Started attempt 1, Failed,
\* then Scheduled s2, Started attempt 2, Completed.
RetryChain(s1, s2) ==
    /\ s1 < s2
    /\ ActivityChain(s1, 1, "ActivityTaskFailed", s2)
    /\ ActivityChain(s2, 2, "ActivityTaskCompleted", Len(events) + 1)

\* The roots of kind Activity whose first event is the event at s.
RootsOf(s) ==
    {r \in DOMAIN tree : tree[r].Type = GroupActivity /\ tree[r].Events[1] = events[s].ID}

\* C11: when a retry is recorded as a new event chain, the tree has one
\* activity root for each of the two ActivityTaskScheduled events, the
\* first holding the failed chain and the second the completed one, and as
\* many activity roots as the history has ActivityTaskScheduled events.
C11_RetryChainTwoRoots ==
    Built => \A s1, s2 \in Scheduled :
                RetryChain(s1, s2) =>
                    /\ \E r1 \in RootsOf(s1), r2 \in RootsOf(s2) :
                          /\ r1 # r2
                          /\ Len(tree[r1].Events) = 3 /\ tree[r1].Status = "Failed"
                          /\ Len(tree[r2].Events) = 3 /\ tree[r2].Status = "Completed"
                    /\ Cardinality(RootsOf(s1)) = 1 /\ Cardinality(RootsOf(s2)) = 1
                    /\ Cardinality({r \in DOMAIN tree : tree[r].Type = GroupActivity})
                          = Cardinality(Scheduled)

\* The six events of the retry chain and nothing else, built: two roots.
C11_Witness ==
    /\ Built
    /\ Len(events) = 6
    /\ RetryChain(1, 4)
    /\ Len(tree) = 2

\* The positions of the ActivityTaskStarted events that refer to the
\* activity scheduled at s.
StartedOf(s) == {j \in RefsTo(events, s) : events[j].Type = "ActivityTaskStarted"}

\* Those of them that carry an attempt number greater than 1.
RetriesOf(s) == {j \in StartedOf(s) : events[j].Attempt > 1}

\* C12: an ActivityTaskStarted event that matches an activity group appends
\* one child, with the event's time as its start time, if its attempt
\* number is greater than 1 and none if it is 1: the children of a group
\* are, in order, the retries that referred to it; and no child has
\* children.
C12_OneChildPerRetry ==
    Built => \A s \in Scheduled : \A r \in RootsOf(s) :
                /\ Len(tree[r].Children) = Cardinality(RetriesOf(s))
                /\ \A j \in RetriesOf(s) :
                      LET k == Cardinality({i \in RetriesOf(s) : i <= j})
                      IN /\ tree[r].Children[k].StartTime = events[j].Time
                         /\ tree[r].Children[k].Events[1] = events[j].ID
                /\ \A k \in DOMAIN tree[r].Children : tree[r].Children[k].Children = <<>>

\* A group started with attempt 1 and a group started with attempt 2, built.
C12_Witness ==
    /\ Built
    /\ \E s \in Scheduled : StartedOf(s) # {} /\ RetriesOf(s) = {}
    /\ \E s \in Scheduled : \E r \in RootsOf(s) :
          RetriesOf(s) # {} /\ Len(tree[r].Children) = 1

\* The positions of the terminal events that refer to the activity
\* scheduled at s.
TerminalsOf(s) == {j \in RefsTo(events, s) : IsTerminal(events[j].Type)}

\* C13: when an activity group receives its terminal event, every attempt
\* child appended to the group before it has the group's terminal status
\* and the terminal event's time as its end time.
C13_EveryChildClosed ==
    Built => \A s \in Scheduled : \A r \in RootsOf(s) : \A t \in TerminalsOf(s) :
                (TerminalsOf(s) = {t} /\ \A j \in RetriesOf(s) : j < t) =>
                    \A k \in DOMAIN tree[r].Children :
                        /\ tree[r].Children[k].Status = extractActivityStatus(events[t].Type)
                        /\ tree[r].Children[k].EndTime = events[t].Time

\* The highest attempt number an ActivityTaskStarted event carried for the
\* activity scheduled at s.
HighestAttempt(s) ==
    CHOOSE a \in {events[j].Attempt : j \in StartedOf(s)} :
        \A j \in StartedOf(s) : events[j].Attempt <= a

\* C14: the attempt count of an activity node is the number of retries
\* beyond the first attempt: k - 1 when the highest attempt number seen for
\* it is k, and so 0 when it was only started with attempt 1.
C14_AttemptsAreRetries ==
    Built => \A s \in Scheduled : \A r \in RootsOf(s) :
                StartedOf(s) # {} => tree[r].Attempts = HighestAttempt(s) - 1

\* The type tags the classification rules enumerate.
Enumerated(t) ==
    \/ HasPrefixWorkflowExecution(t)
    \/ t \in StartTypes
    \/ StartTypeOf(t) # "none"
    \/ t = "MarkerRecorded"

\* C15: every event whose type tag matches none of the enumerated rules has
\* a root of its own, of kind Other and status "Unknown", whose only event
\* it is, and is in no other node: it changes no other group and is not
\* discarded.
C15_UnrecognizedIsOther ==
    Built => \A j \in DOMAIN events :
                ~Enumerated(events[j].Type) =>
                    /\ Occurrences(tree, events[j].ID) = 1
                    /\ \E r \in DOMAIN tree : /\ tree[r].Type = GroupOther
                                                /\ tree[r].Status = "Unknown"
                                                /\ tree[r].Events = <<events[j].ID>>

\* The first terminal event of the group opened at position s.
FirstTerminal(s) ==
    CHOOSE t \in RefsTo(events, s) :
        /\ IsTerminal(events[t].Type)
        /\ \A u \in RefsTo(events, s) : IsTerminal(events[u].Type) => t <= u

\* C23: within one build, once a group has been closed by a terminal event
\* no later event changes its status or end time: the group keeps the
\* status mapped from its first terminal event and that event's time.
C23_ClosedStaysClosed ==
    Built => \A s \in {i \in DOMAIN events : events[i].Type \in StartTypes} :
                (\E t \in RefsTo(events, s) : IsTerminal(events[t].Type)) =>
                    \E r \in DOMAIN tree :
                        /\ tree[r].Events[1] = events[s].ID
                        /\ tree[r].Status = ExpectedStatus(events[FirstTerminal(s)].Type)
                        /\ tree[r].EndTime = events[FirstTerminal(s)].Time

(***************************************************************************)
(* Properties of TimelineView.                                             *)
(***************************************************************************)
\* C8: on a timeline with at least one lane, after moveSelection, resetView
\* or SetNodes the selected lane is inside the visible lane window:
\* scrollY <= selectedLane < scrollY + visibleLanes.
C8_SelectedLaneVisible ==
    (Len(lanes) >= 1 /\ tlOp \in {"moveSelection", "resetView", "SetNodes"})
        => (scrollY <= selectedLane /\ selectedLane < scrollY + VisibleLanes)

LaneStarts == {lanes[i].StartTime : i \in 1..Len(lanes)}

\* The end time of a lane, or the current time for a lane with no end time.
LaneEnds ==
    {IF lanes[i].EndTime = NilTime THEN now ELSE lanes[i].EndTime :
        i \in 1..Len(lanes)}

\* C9: after SetNodes the time range starts at the minimum start time over
\* the lanes and ends at the maximum over the lanes of the lane's end time,
\* or of the current time for a lane with no end time.
C9_RangeIsMinStartMaxEnd ==
    (tlOp = "SetNodes" /\ Len(lanes) >= 1)
        => /\ startTime \in LaneStarts
           /\ \A t \in LaneStarts : startTime <= t
           /\ endTime \in LaneEnds
           /\ \A t \in LaneEnds : t <= endTime

\* C10: after SetNodes on a node list that yields at least one lane, the
\* width of the time range is at least one minute.
C10_RangeAtLeastOneMinute ==
    (tlOp = "SetNodes" /\ Len(lanes) >= 1) => endTime - startTime >= Minute

\* C19: after any sequence of zoom, scroll, resetView and SetNodes the zoom
\* factor lies in [0.5, 5.0] and the horizontal scroll is not negative.
C19_ZoomAndScrollInRange ==
    /\ ZoomMin <= zoomLevel
    /\ zoomLevel <= ZoomMax
    /\ scrollX >= 0

\* Zoomed in to the upper limit on a tree with lanes, and a scroll to the
\* left has ended at column 0.
C19_Witness ==
    /\ zoomLevel = ZoomMax
    /\ Len(lanes) > 0
    /\ scrollX = 0
    /\ tlOp = "scroll"

\* The positions of the nodes that are neither the workflow nor a workflow task.
KeptNodes == {i \in DOMAIN nodes : nodes[i].Type \notin {GroupWorkflow, GroupWorkflowTask}}

\* C20: after SetNodes(nodes) the lanes are exactly the nodes whose kind is
\* neither Workflow nor WorkflowTask, in input order, one lane per node, each
\* with a back-reference to its node; no earlier lane is left.
C20_LanesAreKeptNodes ==
    tlOp = "SetNodes" =>
        /\ Len(lanes) = Cardinality(KeptNodes)
        /\ \A k \in DOMAIN lanes :
              /\ lanes[k].Node \in KeptNodes
              /\ Cardinality({i \in KeptNodes : i <= lanes[k].Node}) = k
              /\ lanes[k].Type = nodes[lanes[k].Node].Type
              /\ lanes[k].Status = nodes[lanes[k].Node].Status
              /\ lanes[k].StartTime = nodes[lanes[k].Node].StartTime
              /\ lanes[k].EndTime = nodes[lanes[k].Node].EndTime

\* SetNodes has run on three nodes with a workflow task between two
\* activities.
C20_Witness ==
    /\ tlOp = "SetNodes"
    /\ Len(nodes) = 3
    /\ nodes[1].Type = GroupActivity
    /\ nodes[2].Type = GroupWorkflowTask
    /\ nodes[3].Type = GroupActivity
    /\ Len(lanes) = 2

\* Lane sel is drawn when the lanes are drawn from row y on.
InWindow(sel, y) == y <= sel /\ sel < y + VisibleLanes

Distance(a, b) == IF a < b THEN b - a ELSE a - b

C29_SelectionValid ==
    /\ Len(lanes) > 0 => (0 <= selectedLane /\ selectedLane < Len(lanes))
    /\ SelectedLane = NilLane <=> Len(lanes) = 0

\* The selection was moved down and the window followed it, and SetNodes
\* then brought a single lane.
C29_Witness ==
    /\ tlOp = "SetNodes"
    /\ Len(lanes) = 1
    /\ scrollY > 0
    /\ selectedLane = 0

(***************************************************************************)
(* Properties of the racing fetches.                                       *)
(***************************************************************************)
\* The results a view shows: the history in its table, and for the workflow
\* detail view the workflow in its workflow panel.
Kinds == IF openView = "WorkflowDetail" THEN {"workflow", "history"} ELSE {"history"}

Shown(kind) == IF kind = "workflow" THEN workflowView ELSE table

\* The result of the kind that arrived last.
LastArrived(kind) ==
    LET of == {i \in 1..Len(arrived) : arrived[i].kind = kind}
    IN arrived[CHOOSE i \in of : \A j \in of : j <= i]

AppliedInArrivalOrder ==
    /\ Len(applied) <= Len(arrived)
    /\ \A i \in 1..Len(applied) : applied[i] = arrived[i]

AllArrived == overlap /\ inflight = {} /\ updates = <<>>

\* C6: when a view starts a fetch before an earlier one has completed, the
\* results are applied in the order they arrive, and once all have arrived
\* the view shows the result that arrived last, whichever request it
\* belongs to.
C6_LastArrivedWins ==
    /\ AppliedInArrivalOrder
    /\ AllArrived =>
          \A kind \in Kinds :
              LET last == LastArrived(kind)
              IN Shown(kind) = IF last.ok THEN Rows(last.req) ELSE ErrorRow(last.req)

\* The render thread runs the callback of a command in this step.
CommandCallbackRuns ==
    /\ updates # <<>>
    /\ Head(updates).kind \in Commands
    /\ updates' = Tail(updates)

\* This step starts a fetch: loadData() sets the loading flag and starts
\* the goroutines of the next request.
FetchStarts ==
    /\ requests' = requests + 1
    /\ loading'
    /\ Calls("WorkflowDetail", requests') \subseteq inflight'

\* C16: for cancel, terminate, signal and reset on the workflow detail view,
\* the callback of the command starts a re-fetch (loadData) when the
\* provider call succeeded, and only then.
C16_RefetchOnSuccessOnly ==
    [][CommandCallbackRuns => (Head(updates).ok <=> FetchStarts)]_vars

\* A reset has succeeded, the view is on the new run and its re-fetch runs.
C16_Witness ==
    /\ runID = 2
    /\ modal = "none"
    /\ requests = 2
    /\ Calls("WorkflowDetail", 2) \subseteq inflight

\* The render thread runs the callback of a failed history fetch in this step.
HistoryFailureApplied ==
    /\ updates # <<>>
    /\ Head(updates).kind = "history"
    /\ ~Head(updates).ok
    /\ updates' = Tail(updates)

\* C17: whenever a history fetch fails, the view that issued it shows the
\* failure as an inline error row in its table, and the callback starts no
\* further fetch: the next one waits for the refresh key.
C17_HistoryFailureShown ==
    [][HistoryFailureApplied =>
          /\ table' = ErrorRow(Head(updates).req)
          /\ requests' = requests
          /\ inflight' = inflight]_vars

\* C18: the view state (loaded items, selection, loading flag, run id,
\* refresh ticker) is read and written on the render thread alone: no
\* goroutine reads or writes a field of the view.
C18_RenderThreadOnly == offRender = {}

\* The calls alternate, and the first is Start.
Alternates(log) ==
    \A i \in DOMAIN log : log[i] = IF i % 2 = 1 THEN "Start" ELSE "Stop"

\* The component has been started and not stopped since.
Active(c) == calls[c] # <<>> /\ calls[c][Len(calls[c])] = "Start"

\* C22: after any sequence of Push, Pop and Clear every component has
\* received its Start and Stop calls in strict alternation beginning with
\* Start, and the component on top of the stack is the only active one.
C22_StartStopAlternate ==
    \A c \in Components :
        /\ Alternates(calls[c])
        /\ Active(c) <=> (stack # <<>> /\ c = Top(stack))

\* The run the data of a request was fetched for.
RunFetched(req, kind) ==
    (CHOOSE f \in fetchRun : f.req = req /\ f.kind = kind).run

\* Every goroutine of the view has delivered its result.
Delivered ==
    /\ inflight = {}
    /\ updates = <<>>
    /\ spawned = {}
    /\ calling = {}

\* C24: after a successful reset has switched the workflow detail view to
\* the new run id, once every outstanding fetch has delivered its result,
\* and the fetches of the last loadData call succeeded, the workflow and the
\* events the view holds were fetched for the new run.
C24_ShowsNewRun ==
    (/\ runID > 1
     /\ Delivered
     /\ \A i \in DOMAIN arrived : arrived[i].req = requests => arrived[i].ok) =>
        /\ RunFetched(workflow, "workflow") = runID
        /\ RunFetched(viewEvents, "history") = runID

\* C25: after any sequence of successful and failed loads, activating a
\* table row opens only the item that row shows; activating the error row
\* opens nothing.
C25_ActivationOpensShownItem ==
    /\ activation.opened # NoItem => activation.opened = activation.shown
    /\ activation.shown = ErrorItem => activation.opened = NoItem

\* The command goroutines that are running or whose callback is queued.
Outstanding ==
    Cardinality(spawned) + Cardinality(calling)
    + Cardinality({i \in DOMAIN updates : updates[i].kind \in Commands})

\* C26: while the modal of a mutating command is shown, however often the
\* confirm key is pressed before the provider has answered, at most one
\* provider call of the command is dispatched.
C26_OneDispatchPerModal == modal # "none" => Outstanding <= 1

\* C27: when a delete call succeeds, the page its callback removes from the
\* stack is the workflow detail view that issued the delete, whatever the
\* user did while the call was in flight; no other view is popped.
C27_DeletePopsIssuer == lastDelete \in {NoDelete, "nothing", "workflow-detail"}

(***************************************************************************)
(* Properties of the auto-refresh.                                         *)
(***************************************************************************)
\* C7: once auto-refresh has been disabled, by the toggle key or by Stop
\* (stopAutoRefresh has run and no startAutoRefresh since), the refresh
\* timer triggers no further loadData call.
C7_NoTimerLoadOnceDisabled == [][RunRefresh => refreshTicker # NilTicker]_vars

C28_FlagMatchesTicker == autoRefresh <=> refreshTicker # NilTicker

====
